---- MODULE Spec2Model ----
(***************************************************************************)
(* Download queue and scheduler of treasure-chest                          *)
(* (src-tauri/src/download_manager.rs).                                    *)
(*                                                                         *)
(* The manager owns two lock-protected collections (queue, active) and a   *)
(* semaphore.  Admission (process_next_download) and the executor run in   *)
(* tasks spawned on the multi-threaded runtime, so every lock-protected    *)
(* section and every semaphore operation is one atomic step of a spawned   *)
(* task and the steps of different tasks interleave freely.  Spawned tasks *)
(* are anonymous: they are kept as a bag of local states.                  *)
(***************************************************************************)
EXTENDS Integers, Sequences, FiniteSets, Bags, TLC

\* ------------------------------------------------------------------ bounds
MaxTasks == 2        \* submissions accepted over one behaviour
MaxPermits == 2      \* largest max_concurrent handed to DownloadManager::new
MaxInstalls == 2     \* install_from_archive calls over one behaviour
MaxClock == 1        \* seconds the wall clock advances over one behaviour
MaxExecutors == 2    \* executors streaming the body of one task
MaxBytes == 3        \* bytes in a response body
MaxChunk == 2        \* bytes in one chunk of the stream
MaxAdvances == 2     \* progress intervals the stream clock runs over

\* ------------------------------------------------------------ data model
\* Option<T>
None == <<>>
Some(x) == <<x>>

\* DownloadStatus (Paused is declared by the enum and never assigned)
Queued == [kind |-> "Queued", error |-> ""]
Downloading == [kind |-> "Downloading", error |-> ""]
Paused == [kind |-> "Paused", error |-> ""]
Completed == [kind |-> "Completed", error |-> ""]
Failed(e) == [kind |-> "Failed", error |-> e]

CancelledByUser == "Cancelled by user"
ExecErrors == {"Request failed"}

\* NxmUrl, reduced to the two fields the manager reads
NxmUrls == {[mod_id |-> 1, file_id |-> 1]}

\* format!("mod_{}_file_{}.zip", mod_id, file_id)
FileName(nxm_url) == <<"mod", nxm_url.mod_id, "file", nxm_url.file_id>>

\* DownloadTask as built by add_to_queue
DownloadTask(id, nxm_url) ==
    [id |-> id, nxm_url |-> nxm_url, file_name |-> FileName(nxm_url),
     status |-> Queued, file_path |-> None]

NoTask == [id |-> 0, nxm_url |-> [mod_id |-> 0, file_id |-> 0],
           file_name |-> <<>>, status |-> Queued, file_path |-> None]

\* Task ids: Uuid::new_v4 is modelled as the next unused number.
TaskIds == 1..MaxTasks
UnknownId == MaxTasks + 1    \* an id no add_to_queue ever returned

\* Settings::load as seen by add_to_queue
SettingsStates == {"load_failed", "no_game_path", "game_path_set"}

\* What scan_mods can report for one installed mod: the two Option<u32>
\* read from its .nexus_meta
InstalledMod(mid, fid) == [nexus_mod_id |-> mid, nexus_file_id |-> fid]
InstalledSets == {{}, {InstalledMod(Some(1), Some(1))},
                  {InstalledMod(Some(1), Some(2))},
                  {InstalledMod(Some(1), None)}}

VARIABLES
    max_concurrent,  \* the permit count given to DownloadManager::new
    queue,           \* VecDeque<DownloadTask>
    active,          \* HashMap<String, DownloadTask>
    permits,         \* permits available in the semaphore
    spawned,         \* bag of local states of the spawned tasks
    next_id,         \* number of ids handed out so far, plus one
    executed,        \* history: ids execute_download was entered for
    cancelled_queued \* history: ids cancelled while their status was Queued

vars == <<max_concurrent, queue, active, permits, spawned, next_id,
          executed, cancelled_queued>>

\* The installer (mod_installer.rs) works on the disk only.
VARIABLES
    fs_mods,         \* install directories under <game>/Mods: path -> content
    fs_scratch,      \* archive stems whose extraction directory exists
    fs_archives,     \* archive stems whose archive file exists
    backups,         \* backup directories written by backup_mod, in order
    clock,           \* SystemTime::now(), in seconds
    install_settings, \* the Settings handed to install_from_archive
    install_count,   \* install_from_archive calls so far
    call             \* the install_from_archive call in progress or returned

install_vars == <<fs_mods, fs_scratch, fs_archives, backups, clock,
                  install_settings, install_count, call>>

\* The streaming loop of execute_download, for the executors of one task.
VARIABLES
    streams,         \* the locals of each executor of the task
    entry,           \* bytes_downloaded of its queue entry, None once removed
    total_size,      \* response.content_length()
    now,             \* Instant::now(), in milliseconds
    progress         \* the last "download-progress" payload emitted

stream_vars == <<streams, entry, total_size, now, progress>>

\* The functions and handlers around the two: each is checked on its own.
VARIABLES
    manifest,        \* the last parse_manifest call: its file and its result
    link,            \* the last nxm link handled: its text and what became of it
    threads,         \* the operations in progress on the manager's two locks
    inbox            \* "download-completed" events and what their handler did

glue_vars == <<manifest, link, threads>>

\* what the scheduler leaves alone
other_vars == <<install_vars, stream_vars, glue_vars, inbox>>

all_vars == <<vars, other_vars>>

\* ---------------------------------------------------------------- helpers
Ids(q) == {q[i].id : i \in 1..Len(q)}

\* queue.iter().position(|t| pred) : smallest index or 0
RECURSIVE PositionFrom(_, _, _)
PositionFrom(q, i, id) ==
    IF i > Len(q) THEN 0
    ELSE IF q[i].id = id THEN i
    ELSE PositionFrom(q, i + 1, id)

Position(q, id) == PositionFrom(q, 1, id)

\* queue.iter_mut().find(|t| matches!(t.status, Queued)) : index or 0
RECURSIVE FirstQueuedFrom(_, _)
FirstQueuedFrom(q, i) ==
    IF i > Len(q) THEN 0
    ELSE IF q[i].status = Queued THEN i
    ELSE FirstQueuedFrom(q, i + 1)

FirstQueued(q) == FirstQueuedFrom(q, 1)

\* VecDeque::remove(pos)
RemoveAt(q, pos) == SubSeq(q, 1, pos - 1) \o SubSeq(q, pos + 1, Len(q))

\* a retain that drops the Completed entries only
Retain_CompletedOnly(q) ==
    SelectSeq(q, LAMBDA t : t.status.kind # "Completed")

\* queue.retain(|t| !matches!(t.status, Completed | Failed { .. }))
RECURSIVE Retain(_)
Retain(q) ==
    IF q = <<>> THEN <<>>
    ELSE IF Head(q).status.kind \in {"Completed", "Failed"}
         THEN Retain(Tail(q))
         ELSE <<Head(q)>> \o Retain(Tail(q))

\* get_queue_state: the snapshot is the queue, front to back
get_queue_state == queue

\* HashMap<String, DownloadTask>
EmptyMap == [id \in {} |-> NoTask]
Insert(m, id, task) ==
    [k \in DOMAIN m \cup {id} |-> IF k = id THEN task ELSE m[k]]
Remove(m, id) == [k \in DOMAIN m \ {id} |-> m[k]]

\* the guard with the file id left out of the comparison
AlreadyInstalled_ModOnly(installed_mods, nxm_url) ==
    \E mod_info \in installed_mods :
        /\ mod_info.nexus_mod_id # None
        /\ mod_info.nexus_mod_id[1] = nxm_url.mod_id

\* the duplicate guard of add_to_queue over the mods scan_mods reports
AlreadyInstalled(installed_mods, nxm_url) ==
    \E mod_info \in installed_mods :
        /\ mod_info.nexus_mod_id # None
        /\ mod_info.nexus_file_id # None
        /\ mod_info.nexus_mod_id[1] = nxm_url.mod_id
        /\ mod_info.nexus_file_id[1] = nxm_url.file_id

\* bag of spawned tasks
Local(pc, task, result) == [pc |-> pc, task |-> task, result |-> result]
Fresh == Local("try_acquire", NoTask, "none")
Spawn(b, l) == b (+) SetToBag({l})
Finish(b, l) == b (-) SetToBag({l})
Move(b, l, l2) == Spawn(Finish(b, l), l2)
At(pc) == {l \in BagToSet(spawned) : l.pc = pc}

\* ------------------------------------------------------------------- Init
Init ==
    /\ max_concurrent \in 1..MaxPermits
    /\ queue = <<>>
    /\ active = EmptyMap
    /\ permits = max_concurrent
    /\ spawned = EmptyBag
    /\ next_id = 1
    /\ executed = {}
    /\ cancelled_queued = {}

\* ------------------------------------------------- DownloadManager calls
\* add_to_queue.  Settings::load and scan_mods read the disk at call time;
\* what they return is an input of the call.  The Result it returns:
add_to_queue_result(nxm_url, settings, installed_mods) ==
    IF settings = "load_failed" THEN "Err: Failed to load settings"
    ELSE IF settings = "game_path_set"
            /\ AlreadyInstalled(installed_mods, nxm_url)
         THEN "Err: already installed"
         ELSE "Ok"

\* the notifications add_to_queue emits
add_to_queue_emits(nxm_url, settings, installed_mods) ==
    IF add_to_queue_result(nxm_url, settings, installed_mods) = "Ok"
    THEN {"download-queued"}
    ELSE {}

add_to_queue(nxm_url, settings, installed_mods) ==
    IF add_to_queue_result(nxm_url, settings, installed_mods) # "Ok"
    THEN UNCHANGED vars
    ELSE /\ next_id <= MaxTasks
         /\ queue' = Append(queue, DownloadTask(next_id, nxm_url))
         /\ next_id' = next_id + 1
         /\ spawned' = Spawn(spawned, Fresh)           \* start_next_download
         /\ UNCHANGED <<max_concurrent, active, permits, executed,
                        cancelled_queued>>

\* cancel_download returns Ok(()) and emits download-cancelled on both of
\* its paths
cancel_download_result(download_id) == "Ok"
cancel_download_emits(download_id) == {"download-cancelled"}

\* a cancel that hands the permit of a Downloading task back
cancel_download_ReleasesPermit(download_id) ==
    LET pos == Position(queue, download_id) IN
    /\ pos # 0
    /\ queue[pos].status = Downloading
    /\ queue' = RemoveAt(queue, pos)
    /\ permits' = permits + 1
    /\ UNCHANGED <<max_concurrent, active, spawned, next_id, executed,
                   cancelled_queued>>

\* cancel_download.  The two lock sections are taken as one step: an id
\* absent from the queue in the first section cannot enter it before the
\* second, because ids are never reused.
cancel_download(download_id) ==
    LET pos == Position(queue, download_id) IN
    /\ IF pos # 0
       THEN /\ queue' = RemoveAt(queue, pos)
            /\ cancelled_queued' =
                   IF queue[pos].status = Queued
                   THEN cancelled_queued \cup {download_id}
                   ELSE cancelled_queued
            /\ UNCHANGED active
       ELSE /\ active' =
                   IF download_id \in DOMAIN active
                   THEN [active EXCEPT ![download_id].status =
                                           Failed(CancelledByUser)]
                   ELSE active
            /\ UNCHANGED <<queue, cancelled_queued>>
    /\ UNCHANGED <<max_concurrent, permits, spawned, next_id, executed>>

clear_completed ==
    /\ queue' = Retain(queue)
    /\ UNCHANGED <<max_concurrent, active, permits, spawned, next_id,
                   executed, cancelled_queued>>

\* ------------------------------------------- process_next_download steps
\* semaphore.try_acquire_owned(): on failure the spawned task ends
TryAcquire(l) ==
    /\ l.pc = "try_acquire"
    /\ IF permits > 0
       THEN /\ permits' = permits - 1
            /\ spawned' = Move(spawned, l, Local("find", NoTask, "none"))
       ELSE /\ spawned' = Finish(spawned, l)
            /\ UNCHANGED permits
    /\ UNCHANGED <<max_concurrent, queue, active, next_id, executed,
                   cancelled_queued>>

\* first queue lock: clone the oldest Queued task; the clone is marked
\* Downloading.  With no Queued task the permit is dropped at scope end.
FindQueued(l) ==
    /\ l.pc = "find"
    /\ LET i == FirstQueued(queue) IN
       spawned' = IF i # 0
                  THEN Move(spawned, l,
                            Local("insert_active",
                                  [queue[i] EXCEPT !.status = Downloading],
                                  "none"))
                  ELSE Move(spawned, l, Local("drop_unused", NoTask, "none"))
    /\ UNCHANGED <<max_concurrent, queue, active, permits, next_id, executed,
                   cancelled_queued>>

\* the permit of an admission attempt that found nothing is not returned
DropUnusedPermit_Leak(l) ==
    /\ l.pc = "drop_unused"
    /\ spawned' = Finish(spawned, l)
    /\ UNCHANGED <<max_concurrent, queue, active, permits, next_id, executed,
                   cancelled_queued>>

DropUnusedPermit(l) ==
    /\ l.pc = "drop_unused"
    /\ permits' = permits + 1
    /\ spawned' = Finish(spawned, l)
    /\ UNCHANGED <<max_concurrent, queue, active, next_id, executed,
                   cancelled_queued>>

\* active.insert(task.id, task)
InsertActive(l) ==
    /\ l.pc = "insert_active"
    /\ active' = Insert(active, l.task.id, l.task)
    /\ spawned' = Move(spawned, l, Local("mark_queue", l.task, "none"))
    /\ UNCHANGED <<max_concurrent, queue, permits, next_id, executed,
                   cancelled_queued>>

\* second queue lock: set the entry's status, then spawn the executor,
\* which takes the permit with it
MarkQueue(l) ==
    /\ l.pc = "mark_queue"
    /\ LET pos == Position(queue, l.task.id) IN
       queue' = IF pos # 0
                THEN [queue EXCEPT ![pos].status = Downloading]
                ELSE queue
    /\ spawned' = Move(spawned, l, Local("execute", l.task, "none"))
    /\ UNCHANGED <<max_concurrent, active, permits, next_id, executed,
                   cancelled_queued>>

\* ------------------------------------------------------- executor steps
\* The executor is followed from the scheduler's side: its entry, its
\* Result, and what the spawned closure does with the permit, the queue
\* and the active set afterwards.  The byte counters it writes while
\* streaming are not fields of the task records here.
\* execute_download is entered
StartExecute(l) ==
    /\ l.pc = "execute"
    /\ executed' = executed \cup {l.task.id}
    /\ spawned' = Move(spawned, l, Local("transfer", l.task, "none"))
    /\ UNCHANGED <<max_concurrent, queue, active, permits, next_id,
                   cancelled_queued>>

\* execute_download returns Ok(file_path) or Err(reason)
EndExecute(l, result) ==
    /\ l.pc = "transfer"
    /\ spawned' = Move(spawned, l, Local("drop_permit", l.task, result))
    /\ UNCHANGED <<max_concurrent, queue, active, permits, next_id, executed,
                   cancelled_queued>>

\* drop(permit)
DropPermit(l) ==
    /\ l.pc = "drop_permit"
    /\ permits' = permits + 1
    /\ spawned' = Move(spawned, l, Local("finish_queue", l.task, l.result))
    /\ UNCHANGED <<max_concurrent, queue, active, next_id, executed,
                   cancelled_queued>>

\* complete_download, queue section
complete_download_queue(l) ==
    /\ l.pc = "finish_queue"
    /\ l.result = "Ok"
    /\ LET pos == Position(queue, l.task.id) IN
       queue' = IF pos # 0
                THEN [queue EXCEPT ![pos].status = Completed,
                                   ![pos].file_path = Some(l.task.file_name)]
                ELSE queue
    /\ spawned' = Move(spawned, l, Local("finish_active", l.task, l.result))
    /\ UNCHANGED <<max_concurrent, active, permits, next_id, executed,
                   cancelled_queued>>

\* fail_download, queue section
fail_download_queue(l) ==
    /\ l.pc = "finish_queue"
    /\ l.result # "Ok"
    /\ LET pos == Position(queue, l.task.id) IN
       queue' = IF pos # 0
                THEN [queue EXCEPT ![pos].status = Failed(l.result)]
                ELSE queue
    /\ spawned' = Move(spawned, l, Local("finish_active", l.task, l.result))
    /\ UNCHANGED <<max_concurrent, active, permits, next_id, executed,
                   cancelled_queued>>

\* complete_download / fail_download, active section and notification,
\* then next_trigger.start_next_download()
FinishActive(l) ==
    /\ l.pc = "finish_active"
    /\ active' = Remove(active, l.task.id)
    /\ spawned' = Move(spawned, l, Fresh)
    /\ UNCHANGED <<max_concurrent, queue, permits, next_id, executed,
                   cancelled_queued>>

\* the notification a finishing executor emits in FinishActive
FinishEmits(l) ==
    IF l.result = "Ok" THEN "download-completed" ELSE "download-failed"

\* ============================================================ installer
\* mod_installer.rs: install_from_archive and the functions it calls.
\* One call runs at a time; every disk operation may fail.

\* the names in settings.core_frameworks
CoreFrameworks == {"SMAPI"}

ModsRoot == "Mods"
FrameworksRoot == "Mods/_Frameworks"

Dir(name) == [name |-> name, is_dir |-> TRUE]
File(name) == [name |-> name, is_dir |-> FALSE]

\* an archive: the file stem of its path and its top-level entries
Archive(stem, entries) == [stem |-> stem, entries |-> entries]
SingleFolderArchive == Archive("pack", {Dir("CoolMod")})
FrameworkArchive == Archive("pack", {Dir("SMAPI")})
ThreeFolderArchive == Archive("pack", {Dir("A"), Dir("B"), Dir("C")})
SingleFileArchive == Archive("pack", {File("manifest.json")})
Archives == {SingleFolderArchive, FrameworkArchive, ThreeFolderArchive,
             SingleFileArchive}
Stems == {a.stem : a \in Archives}

\* mod_name: Option<String>
Hints == {None, Some("SMAPI")}
\* nexus_info: Option<(u32, u32)>
NexusInfos == {None, Some(<<1, 1>>)}

\* the contents of a directory: the call that wrote it (0: before the
\* first call), the directory it was copied from, whether the copy ran to
\* its end, and the ids in its .nexus_meta file
Content(by, source, complete, nexus) ==
    [by |-> by, source |-> source, complete |-> complete, nexus |-> nexus]
OldContent == Content(0, <<"old">>, TRUE, None)

\* a first directory is the unit, however many entries there are
determine_install_strategy_AnyFolder(entries, stem, mod_name) ==
    LET first == CHOOSE e \in entries : TRUE
    IN  IF first.is_dir
        THEN [source |-> <<stem, first.name>>, target_name |-> first.name]
        ELSE [source |-> <<stem>>,
              target_name |-> IF mod_name # None THEN mod_name[1] ELSE stem]

\* the hint is the name for every layout
determine_install_strategy_HintFirst(entries, stem, mod_name) ==
    LET first == CHOOSE e \in entries : TRUE
        single == Cardinality(entries) = 1 /\ first.is_dir
    IN  [source |-> IF single THEN <<stem, first.name>> ELSE <<stem>>,
         target_name |-> IF mod_name # None THEN mod_name[1]
                         ELSE IF single THEN first.name ELSE stem]

\* Case A: one entry and it is a directory: install that directory under
\* its own name. Case B: install the extraction directory under the hint,
\* or under the archive's file stem.
determine_install_strategy(entries, stem, mod_name) ==
    LET first == CHOOSE e \in entries : TRUE
    IN  IF Cardinality(entries) = 1 /\ first.is_dir
        THEN [source |-> <<stem, first.name>>, target_name |-> first.name]
        ELSE [source |-> <<stem>>,
              target_name |-> IF mod_name # None THEN mod_name[1] ELSE stem]

\* the framework test on the target name alone
is_framework_ByTarget(mod_name, target_name) ==
    target_name \in CoreFrameworks

\* the framework test: on the hint if there is one, else on the target name
is_framework(mod_name, target_name) ==
    IF mod_name # None THEN mod_name[1] \in CoreFrameworks
    ELSE target_name \in CoreFrameworks

install_base(mod_name, target_name) ==
    IF is_framework(mod_name, target_name) THEN FrameworksRoot
    ELSE ModsRoot

install_path(mod_name, target_name) ==
    <<install_base(mod_name, target_name), target_name>>

\* backups/<unique_id>/<seconds since the epoch>
backup_path(unique_id) == <<unique_id, clock>>

\* Result<InstallResult, InstallError>
NoResult == [kind |-> "none", error |-> "", mod_name |-> "",
             version |-> "", unique_id |-> "", install_path |-> <<>>]
Err(error) == [NoResult EXCEPT !.kind = "Err", !.error = error]
Ok(mod_name, version, unique_id, path) ==
    [kind |-> "Ok", error |-> "", mod_name |-> mod_name,
     version |-> version, unique_id |-> unique_id, install_path |-> path]

\* what reading <install path>/manifest.json gives: the file is absent,
\* parse_manifest fails on it, or it parses
ManifestReads == {"absent", "unparsable", "parsed"}
\* the manifest of the installed mods, where it parses
InstalledManifest == [version |-> "1.0.0", unique_id |-> "Author.Mod"]

\* the fallback names the version for the id
version_and_id_VersionAsId(read, target_name) ==
    IF read = "parsed" THEN <<InstalledManifest.version, InstalledManifest.unique_id>>
    ELSE <<"Unknown", "Unknown">>

\* let (version, unique_id) = ..: the manifest's if it parses, else
\* "Unknown" and the target name
version_and_id(read, target_name) ==
    IF read = "parsed" THEN <<InstalledManifest.version, InstalledManifest.unique_id>>
    ELSE <<"Unknown", target_name>>

\* a call: where it stands, its arguments, its locals, what it found at
\* the install path, what its read of the installed manifest gave, how
\* often it has emitted "mod-installed", and once it has returned the
\* statement it returned from and the value
NoCall == [pc |-> "idle", n |-> 0, archive |-> SingleFolderArchive,
           mod_name |-> None, nexus_info |-> None, source |-> <<>>,
           target_name |-> "", install_path |-> <<>>, old |-> None,
           manifest |-> "", emitted |-> 0,
           site |-> "", result |-> NoResult]

Return(site, result) ==
    call' = [call EXCEPT !.pc = "returned", !.site = site,
                         !.result = result]

\* the call has returned from the statement named site
ReturnedAt(site) == call.pc = "returned" /\ call.site = site

\* the notifications the end of install_from_archive emits
FinalizeEmits_None == <<>>

FinalizeEmits == <<"mod-installed">>

\* what Mods holds before the first call
InitialDisks ==
    {EmptyMap, Insert(EmptyMap, <<ModsRoot, "CoolMod">>, OldContent)}

InstallInit ==
    /\ fs_mods \in InitialDisks
    /\ fs_scratch = {}
    /\ fs_archives = Stems
    /\ backups = EmptyMap
    /\ clock = 0
    /\ install_settings \in [auto_install : BOOLEAN,
                             delete_after_install : BOOLEAN]
    /\ install_count = 0
    /\ call = NoCall

\* no install runs and the disk is as it was
InstallerIdle ==
    /\ fs_mods = EmptyMap
    /\ fs_scratch = {}
    /\ fs_archives = Stems
    /\ backups = EmptyMap
    /\ clock = 0
    /\ install_settings = [auto_install |-> TRUE,
                           delete_after_install |-> FALSE]
    /\ install_count = 0
    /\ call = NoCall

\* a caller enters install_from_archive
InstallBegin(archive, mod_name, nexus_info) ==
    /\ call.pc \in {"idle", "returned"}
    /\ install_count < MaxInstalls
    /\ install_count' = install_count + 1
    /\ call' = [NoCall EXCEPT !.pc = "extract", !.n = install_count + 1,
                              !.archive = archive, !.mod_name = mod_name,
                              !.nexus_info = nexus_info]
    /\ UNCHANGED <<fs_mods, fs_scratch, fs_archives, backups, clock,
                   install_settings>>

\* create_dir_all(temp_dir)? and extract_archive(..)?: a stale extraction
\* directory is removed, the directory is created, the archive is opened
\* and its entries are written; an error returns at once
extract_archive ==
    LET stem == call.archive.stem
    IN  /\ call.pc = "extract"
        /\ \E outcome \in {"temp_failed", "remove_stale_failed",
                           "create_failed", "open_failed",
                           "extraction_failed", "ok"} :
              CASE outcome = "temp_failed" ->
                     /\ Return("create_temp", Err("IoError"))
                     /\ UNCHANGED fs_scratch
                [] outcome = "remove_stale_failed" ->
                     /\ stem \in fs_scratch
                     /\ Return("extract", Err("IoError"))
                     /\ UNCHANGED fs_scratch
                [] outcome = "create_failed" ->
                     /\ fs_scratch' = fs_scratch \ {stem}
                     /\ Return("extract", Err("IoError"))
                [] outcome = "open_failed" ->
                     /\ fs_scratch' = fs_scratch \cup {stem}
                     /\ Return("extract", Err("IoError"))
                [] outcome = "extraction_failed" ->
                     /\ stem \in fs_archives
                     /\ fs_scratch' = fs_scratch \cup {stem}
                     /\ Return("extract", Err("ExtractionFailed"))
                [] outcome = "ok" ->
                     /\ stem \in fs_archives
                     /\ fs_scratch' = fs_scratch \cup {stem}
                     /\ call' = [call EXCEPT !.pc = "strategy"]
        /\ UNCHANGED <<fs_mods, fs_archives, backups, clock,
                       install_settings, install_count>>

\* determine_install_strategy(..)? and the choice of the install path
ResolveTarget ==
    /\ call.pc = "strategy"
    /\ \/ Return("strategy", Err("IoError"))        \* read_dir(extract_dir) failed
       \/ LET s == determine_install_strategy(call.archive.entries,
                                              call.archive.stem,
                                              call.mod_name)
          IN  call' = [call EXCEPT
                          !.pc = "collision",
                          !.source = s.source,
                          !.target_name = s.target_name,
                          !.install_path =
                              install_path(call.mod_name, s.target_name)]
    /\ UNCHANGED <<fs_mods, fs_scratch, fs_archives, backups, clock,
                   install_settings, install_count>>

\* backup_mod: copy the directory into backups/<unique_id>/<timestamp>;
\* copying into a directory that is there already adds to it
backup_mod(mod_path, unique_id) ==
    LET p == backup_path(unique_id)
        before == IF p \in DOMAIN backups THEN backups[p] ELSE {}
    IN  backups' = Insert(backups, p, before \cup {fs_mods[mod_path]})

\* if install_path.exists(): backup_mod, its error only logged
HandleCollision ==
    /\ call.pc = "collision"
    /\ IF call.install_path \in DOMAIN fs_mods
       THEN /\ \/ backup_mod(call.install_path, call.target_name)
               \/ UNCHANGED backups     \* backup_mod failed
            /\ call' = [call EXCEPT
                            !.pc = "remove_old",
                            !.old = Some(fs_mods[call.install_path])]
       ELSE /\ call' = [call EXCEPT !.pc = "install"]
            /\ UNCHANGED backups
    /\ UNCHANGED <<fs_mods, fs_scratch, fs_archives, clock,
                   install_settings, install_count>>

\* force_remove_dir_all(&install_path)?
RemoveOld ==
    /\ call.pc = "remove_old"
    /\ \/ /\ fs_mods' = Remove(fs_mods, call.install_path)
          /\ call' = [call EXCEPT !.pc = "install"]
       \/ /\ Return("remove_old", Err("IoError"))
          /\ UNCHANGED fs_mods
    /\ UNCHANGED <<fs_scratch, fs_archives, backups, clock,
                   install_settings, install_count>>

\* a copy whose failure is rolled back and then dropped
install_mod_files_with_rollback_ErrDropped ==
    \E outcome \in {"create_failed", "copy_failed", "ok"} :
        CASE outcome = "create_failed" ->
               /\ Return("create_destination", Err("IoError"))
               /\ UNCHANGED fs_mods
          [] outcome = "copy_failed" ->
               /\ Return("copy", Ok(call.target_name, "Unknown",
                                    call.target_name, call.install_path))
               /\ UNCHANGED fs_mods
          [] outcome = "ok" ->
               /\ fs_mods' = Insert(fs_mods, call.install_path,
                                 Content(call.n, call.source, TRUE, None))
               /\ call' = [call EXCEPT !.pc = "finalize"]

\* install_mod_files_with_rollback: create the destination and copy the
\* source into it; when the copy fails the destination is removed, and a
\* failure of that removal is dropped
install_mod_files_with_rollback ==
    \E outcome \in {"create_failed", "copy_failed", "rollback_failed",
                    "ok"} :
        CASE outcome = "create_failed" ->
               /\ Return("create_destination", Err("IoError"))
               /\ UNCHANGED fs_mods
          [] outcome = "copy_failed" ->
               /\ Return("copy", Err("IoError"))
               /\ UNCHANGED fs_mods
          [] outcome = "rollback_failed" ->
               /\ Return("copy", Err("IoError"))
               /\ fs_mods' = Insert(fs_mods, call.install_path,
                                 Content(call.n, call.source, FALSE, None))
          [] outcome = "ok" ->
               /\ fs_mods' = Insert(fs_mods, call.install_path,
                                 Content(call.n, call.source, TRUE, None))
               /\ call' = [call EXCEPT !.pc = "finalize"]

\* an install that deletes the archive when it refuses to copy
InstallFiles_DeletesOnError ==
    /\ call.pc = "install"
    /\ IF install_settings.auto_install
       THEN install_mod_files_with_rollback /\ UNCHANGED fs_archives
       ELSE /\ Return("auto_install_off", Err("InstallationFailed"))
            /\ fs_archives' = fs_archives \ {call.archive.stem}
            /\ UNCHANGED fs_mods
    /\ UNCHANGED <<fs_scratch, backups, clock, install_settings,
                   install_count>>

\* if settings.auto_install { install .. } else { return Err(..) }
InstallFiles ==
    /\ call.pc = "install"
    /\ IF install_settings.auto_install
       THEN install_mod_files_with_rollback
       ELSE /\ Return("auto_install_off", Err("InstallationFailed"))
            /\ UNCHANGED fs_mods
    /\ UNCHANGED <<fs_scratch, fs_archives, backups, clock,
                   install_settings, install_count>>

\* after the copy: remove the extraction directory, delete the archive if
\* delete_after_install, read the installed manifest, write .nexus_meta if
\* ids were given (a failure of any of these is only logged), emit
\* "mod-installed", return. Where the unit is the extraction directory,
\* manifest.json is installed exactly when it is a top-level entry of the
\* archive; what a folder of an archive holds is not fixed.
Finalize ==
    /\ call.pc = "finalize"
    /\ \/ fs_scratch' = fs_scratch \ {call.archive.stem}
       \/ UNCHANGED fs_scratch
    /\ \/ /\ install_settings.delete_after_install
          /\ fs_archives' = fs_archives \ {call.archive.stem}
       \/ UNCHANGED fs_archives
    /\ \/ /\ call.nexus_info # None
          /\ fs_mods' = [fs_mods EXCEPT
                            ![call.install_path].nexus = call.nexus_info]
       \/ UNCHANGED fs_mods
    /\ \E read \in ManifestReads :
          /\ call.source = <<call.archive.stem>> =>
                 ((read = "absent") <=>
                      File("manifest.json") \notin call.archive.entries)
          /\ LET vi == version_and_id(read, call.target_name)
             IN  call' = [call EXCEPT
                    !.pc = "returned",
                    !.site = "end",
                    !.manifest = read,
                    !.emitted = call.emitted + Len(FinalizeEmits),
                    !.result = Ok(IF call.mod_name # None
                                  THEN call.mod_name[1]
                                  ELSE call.target_name,
                                  vi[1], vi[2], call.install_path)]
    /\ UNCHANGED <<backups, clock, install_settings, install_count>>

\* scan_mods over the install directories. scan_dir takes a directory as a
\* mod when its manifest.json parses, with the ids of its .nexus_meta, and
\* does not look below it; below a directory without manifest.json it
\* recurses, and the mod folders found there have no .nexus_meta that an
\* install wrote. The manifest of the directory the last call installed
\* is the file that call read, clean JSON where it parsed; the other
\* directories are taken as mods.
scan_mods ==
    LET mine(p) == ReturnedAt("end") /\ p = call.install_path
        is_mod(p) == mine(p) => call.manifest = "parsed"
        nested(p) == /\ mine(p)
                     /\ call.manifest = "absent"
                     /\ call.source = <<call.archive.stem>>
                     /\ \E e \in call.archive.entries : e.is_dir
        meta(p) == IF fs_mods[p].nexus = None
                   THEN InstalledMod(None, None)
                   ELSE InstalledMod(Some(fs_mods[p].nexus[1][1]),
                                     Some(fs_mods[p].nexus[1][2]))
    IN  {meta(p) : p \in {q \in DOMAIN fs_mods : is_mod(q)}}
        \cup {InstalledMod(None, None) :
                 p \in {q \in DOMAIN fs_mods : nested(q)}}

\* a second passes
Tick ==
    /\ clock < MaxClock
    /\ clock' = clock + 1
    /\ UNCHANGED <<fs_mods, fs_scratch, fs_archives, backups,
                   install_settings, install_count, call>>

Install ==
    /\ \E archive \in Archives, mod_name \in Hints,
          nexus_info \in NexusInfos :
           InstallBegin(archive, mod_name, nexus_info)
    /\ UNCHANGED <<vars, stream_vars, glue_vars, inbox>>

InstallStep ==
    /\ \/ extract_archive
       \/ ResolveTarget
       \/ HandleCollision
       \/ RemoveOld
       \/ InstallFiles
       \/ Finalize
    /\ UNCHANGED <<vars, stream_vars, glue_vars, inbox>>

Second == Tick /\ UNCHANGED <<vars, stream_vars, glue_vars, inbox>>

InstallNext == Install \/ InstallStep \/ Second

\* the scheduler as lib.rs builds it, left alone
SchedulerIdle == Init /\ max_concurrent = 1

\* ============================================================== streaming
\* execute_download, lines 410-470: the executors of one task stream the
\* response body and report progress. A task that was admitted twice has
\* two executors writing the same queue entry.

\* Duration::from_millis(100)
ProgressIntervalMs == 100

\* the length of the response body, which Content-Length states if present
BodyLen == MaxBytes

\* u64 arithmetic is modulo 2^64 where the build does not check it; the
\* modulus here stands for 2^64, far above every count of the model
U64 == 2^30

\* DownloadProgress { bytes_downloaded, bytes_total, speed_bps,
\* eta_seconds, progress_percent }, percent rounded down; remaining is
\* the u64 difference total_size.unwrap() - downloaded
DownloadProgress(downloaded, bytes_total, elapsed_ms, bytes_diff) ==
    LET speed_bps == (bytes_diff * 1000) \div elapsed_ms
    IN  [bytes_downloaded |-> downloaded,
         bytes_total |-> bytes_total,
         speed_bps |-> speed_bps,
         eta_seconds |-> IF speed_bps > 0 /\ bytes_total # None
                         THEN Some(((bytes_total[1] - downloaded) % U64)
                                   \div speed_bps)
                         ELSE None,
         progress_percent |-> IF bytes_total # None
                              THEN (downloaded * 100) \div bytes_total[1]
                              ELSE 0]

\* the locals of one executor inside execute_download
Stream(t) == [downloaded |-> 0, last_progress_time |-> t,
              last_progress_bytes |-> 0, open |-> TRUE]

\* content_length() is absent, or the length of the body, or by one byte
\* less than the body the server goes on to send
StreamInit ==
    /\ streams = <<>>
    /\ entry = Some(0)
    /\ total_size \in {None, Some(BodyLen), Some(BodyLen - 1)}
    /\ now = 0
    /\ progress = None

\* no executor is streaming
StreamIdle ==
    /\ streams = <<>>
    /\ entry = Some(0)
    /\ total_size = None
    /\ now = 0
    /\ progress = None

\* an executor of the task reaches the loop
StartStream ==
    /\ Len(streams) < MaxExecutors
    /\ streams' = Append(streams, Stream(now))
    /\ UNCHANGED <<entry, total_size, now, progress>>

\* the body of the 100 ms branch: store the count in the queue entry if the
\* task is still queued, emit "download-progress", restart the sample.
\* Where downloaded exceeds total_size the subtraction overflows: a build
\* that checks it panics there and the executor's task ends, a build that
\* does not goes on with the wrapped difference.
Report(k, len) ==
    LET s == streams[k]
        downloaded == s.downloaded + len
    IN  \/ /\ entry' = IF entry # None THEN Some(downloaded) ELSE None
           /\ progress' = Some(DownloadProgress(downloaded, total_size,
                                   now - s.last_progress_time,
                                   downloaded - s.last_progress_bytes))
           /\ streams' = [streams EXCEPT
                             ![k].downloaded = downloaded,
                             ![k].last_progress_time = now,
                             ![k].last_progress_bytes = downloaded]
        \/ /\ total_size # None
           /\ downloaded > total_size[1]
           /\ streams' = [streams EXCEPT ![k].downloaded = downloaded,
                                         ![k].open = FALSE]
           /\ UNCHANGED <<entry, progress>>

\* one turn of the loop: a chunk of len bytes arrives and is written
Chunk(k, len) ==
    LET s == streams[k]
    IN  /\ s.open
        /\ s.downloaded + len <= BodyLen
        /\ IF now - s.last_progress_time > ProgressIntervalMs
           THEN Report(k, len)
           ELSE /\ streams' = [streams EXCEPT
                                  ![k].downloaded = s.downloaded + len]
                /\ UNCHANGED <<entry, progress>>
        /\ UNCHANGED <<total_size, now>>

\* the stream ends: with the body read to its end, or with an error
EndStream(k) ==
    /\ streams[k].open
    /\ streams' = [streams EXCEPT ![k].open = FALSE]
    /\ UNCHANGED <<entry, total_size, now, progress>>

\* cancel_download or clear_completed takes the entry out of the queue
RemoveEntry ==
    /\ entry # None
    /\ entry' = None
    /\ UNCHANGED <<streams, total_size, now, progress>>

\* time passes
Advance(dt) ==
    /\ now < MaxAdvances * ProgressIntervalMs
    /\ now' = now + dt
    /\ UNCHANGED <<streams, entry, total_size, progress>>

StreamStart == StartStream /\ UNCHANGED <<vars, install_vars, glue_vars, inbox>>

StreamChunk ==
    /\ \E k \in 1..Len(streams), len \in 1..MaxChunk : Chunk(k, len)
    /\ UNCHANGED <<vars, install_vars, glue_vars, inbox>>

StreamEnd ==
    /\ \E k \in 1..Len(streams) : EndStream(k)
    /\ UNCHANGED <<vars, install_vars, glue_vars, inbox>>

StreamRemove == RemoveEntry /\ UNCHANGED <<vars, install_vars, glue_vars, inbox>>

StreamAdvance ==
    /\ \E dt \in {ProgressIntervalMs, ProgressIntervalMs + 1} : Advance(dt)
    /\ UNCHANGED <<vars, install_vars, glue_vars, inbox>>

ProgressNext ==
    StreamStart \/ StreamChunk \/ StreamEnd \/ StreamRemove \/ StreamAdvance

\* =============================================================== manifest
\* mod_installer.rs: parse_manifest and strip_json_comments.  The text of a
\* manifest is a sequence of characters; the byte-order mark, and a name
\* or a number no function looks into, stand as one character.

\* the longest run of whitespace between a trailing comma and its closer
MaxGap == 2

\* a manifest object: for each key what stands for it in the file
ManifestObjects ==
    [Name : {"absent", "string", "number"},
     Author : {"absent", "string", "number"},
     Version : {"absent", "string"},
     UniqueID : {"absent", "string"},
     Dependencies : {"absent", "list", "number"}]

\* clean JSON: no byte-order mark, no comment, no trailing comma
CleanJson == [bom |-> FALSE, comment |-> "none", trailing |-> "none",
              gap |-> <<>>]

\* how a file departs from clean JSON: a leading byte-order mark, a
\* comment after the opening brace, a trailing comma before the closing
\* brace of the object or the closing bracket of the list, and the
\* whitespace between that comma and its closer
Decorations ==
    {CleanJson} \cup
    [bom : BOOLEAN, comment : {"none", "line", "block"},
     trailing : {"none", "object", "list"},
     gap : UNION {[1..n -> {" ", "\n", "\r"}] : n \in 0..MaxGap}]

\* the text of the file: the members in the order of the struct, every
\* string holding two slashes
ManifestText(obj, deco) ==
    LET Q == "\""
        str == <<Q, "/", "/", Q>>
        comma(closer) ==
            IF deco.trailing = closer THEN <<",">> \o deco.gap ELSE <<>>
        value(k) ==
            CASE obj[k] = "string" -> str
              [] obj[k] = "number" -> <<"5">>
              [] obj[k] = "list" ->
                   <<"[", "{", Q, "UniqueID", Q, ":">> \o str \o <<"}">>
                   \o comma("list") \o <<"]">>
        present == SelectSeq(<<"Name", "Author", "Version", "UniqueID",
                               "Dependencies">>,
                             LAMBDA k : obj[k] # "absent")
        RECURSIVE members(_)
        members(i) ==
            IF i > Len(present) THEN <<>>
            ELSE (IF i > 1 THEN <<",">> ELSE <<>>)
                 \o <<Q, present[i], Q, ":">> \o value(present[i])
                 \o members(i + 1)
        comment ==
            CASE deco.comment = "line" -> <<"/", "/", "c", "\n">>
              [] deco.comment = "block" -> <<"/", "*", "c", "*", "/">>
              [] deco.comment = "none" -> <<>>
    IN  (IF deco.bom THEN <<"BOM">> ELSE <<>>) \o <<"{">> \o comment
        \o members(1) \o comma("object") \o <<"}">>

\* strip_json_comments: one pass over the characters with the flags
\* in_string and escape_next; outside a string "//" is dropped up to the
\* end of the line, the line end kept, and "/*" up to "*/" becomes one
\* space.  The characters between two that the loop acts on (a quote, a
\* backslash in a string, a slash outside one) are pushed as they are
\* and taken in one step here.
strip_json_comments(input) ==
    LET n == Len(input)
        \* the first index from i on that stops, n + 1 if there is none
        first(i, stops(_)) ==
            LET at == SelectSeq([k \in 1..n |-> k],
                                LAMBDA k : k >= i /\ stops(k))
            IN  IF at = <<>> THEN n + 1 ELSE at[1]
        RECURSIVE scan(_, _)
        scan(i, in_string) ==
            LET j == first(i, LAMBDA k :
                         input[k] \in IF in_string THEN {"\\", "\""}
                                      ELSE {"\"", "/"})
                pushed == SubSeq(input, i, j - 1)
            IN  CASE j > n -> pushed
                  [] j <= n /\ input[j] = "\\" ->
                       \* escape_next: the next character is pushed too
                       pushed \o SubSeq(input, j, IF j < n THEN j + 1 ELSE n)
                       \o scan(j + 2, in_string)
                  [] j <= n /\ input[j] = "\"" ->
                       pushed \o <<input[j]>> \o scan(j + 1, ~in_string)
                  [] j < n /\ input[j] = "/" /\ input[j + 1] = "/" ->
                       LET e == first(j + 2, LAMBDA k :
                                          input[k] \in {"\n", "\r"})
                       IN  IF e > n THEN pushed
                           ELSE pushed \o <<input[e]>>
                                \o scan(e + 1, in_string)
                  [] j < n /\ input[j] = "/" /\ input[j + 1] = "*" ->
                       LET e == first(j + 3, LAMBDA k :
                                   input[k - 1] = "*" /\ input[k] = "/")
                       IN  pushed \o <<" ">> \o scan(e + 1, in_string)
                  [] OTHER ->
                       pushed \o <<input[j]>> \o scan(j + 1, in_string)
    IN  scan(1, FALSE)

\* a deserializer that reports a key of the wrong type as missing
ModManifest_from_MissingOrIllTyped(obj) ==
    LET missing == SelectSeq(<<"Name", "Version", "UniqueID">>,
                             LAMBDA k : obj[k] # "string")
    IN  IF missing = <<>> /\ obj.Author # "number"
        THEN [kind |-> "Ok", error |-> "", missing |-> <<>>,
              manifest |-> Some([name |-> "//", version |-> "//",
                  unique_id |-> "//",
                  author |-> IF obj.Author = "absent" THEN "Unknown"
                             ELSE "//",
                  dependencies |-> obj.Dependencies])]
        ELSE [kind |-> "Err",
              error |-> IF missing # <<>> THEN "Missing required fields"
                        ELSE "serde",
              missing |-> missing, manifest |-> None]

\* serde_json::from_str::<ModManifest> and the map_err on it: Name,
\* Version and UniqueID must be strings, Author a string if it is there
\* (else "Unknown"), Dependencies a list if it is there; on an error the
\* message lists the keys among the three that the object does not
\* contain, or is serde's own if it contains all three
ModManifest_from(obj) ==
    LET ok == /\ obj.Name = "string"
              /\ obj.Version = "string"
              /\ obj.UniqueID = "string"
              /\ obj.Author \in {"absent", "string"}
              /\ obj.Dependencies \in {"absent", "list"}
        missing == SelectSeq(<<"Name", "Version", "UniqueID">>,
                             LAMBDA k : obj[k] = "absent")
    IN  IF ok
        THEN [kind |-> "Ok", error |-> "", missing |-> <<>>,
              manifest |-> Some([name |-> "//", version |-> "//",
                  unique_id |-> "//",
                  author |-> IF obj.Author = "absent" THEN "Unknown"
                             ELSE "//",
                  dependencies |-> obj.Dependencies])]
        ELSE [kind |-> "Err",
              error |-> IF missing # <<>> THEN "Missing required fields"
                        ELSE "serde",
              missing |-> missing, manifest |-> None]

\* parse_manifest on the text of the file: the byte-order marks at the
\* start are trimmed, comments stripped, the five replacements made one
\* after the other (each puts its pattern back without the leading comma,
\* so it drops the comma of every match), and the result parsed strictly:
\* whitespace between tokens is the only thing the JSON of a manifest
\* object may add
parse_manifest(text) ==
    LET pick(s, keep(_, _)) ==
            LET at == SelectSeq([i \in 1..Len(s) |-> i],
                                LAMBDA i : keep(s, i))
            IN  [j \in 1..Len(at) |-> s[at[j]]]
        trim_start(s) ==
            pick(s, LAMBDA t, i : \E k \in 1..i : t[k] # "BOM")
        replace(s, from) ==
            pick(s, LAMBDA t, i :
                      ~(/\ i + Len(from) - 1 <= Len(t)
                        /\ SubSeq(t, i, i + Len(from) - 1) = from))
        in_string(t, i) ==
            Cardinality({k \in 1..(i - 1) : t[k] = "\""}) % 2 = 1
        compact(s) ==
            pick(s, LAMBDA t, i :
                      in_string(t, i) \/ t[i] \notin {" ", "\n", "\r", "\t"})
        content ==
            replace(replace(replace(replace(replace(
                strip_json_comments(trim_start(text)),
                <<",", "\n", "}">>),
                <<",", "\r", "\n", "}">>),
                <<",", " ", "}">>),
                <<",", "]">>),
                <<",", " ", "]">>)
        tokens == compact(content)
        value == {o \in ManifestObjects : ManifestText(o, CleanJson) = tokens}
    IN  IF value = {}
        THEN [kind |-> "Err", error |-> "Invalid JSON syntax",
              missing |-> <<>>, manifest |-> None]
        ELSE ModManifest_from(CHOOSE o \in value : TRUE)

\* scan_dir on the text of a manifest.json: the byte-order marks at the
\* start are trimmed, comments stripped, and the result parsed strictly
\* into a ModManifest; no comma is removed, and a text that does not parse
\* is passed over
scan_dir_manifest(text) ==
    LET pick(s, keep(_, _)) ==
            LET at == SelectSeq([i \in 1..Len(s) |-> i],
                                LAMBDA i : keep(s, i))
            IN  [j \in 1..Len(at) |-> s[at[j]]]
        trim_start(s) ==
            pick(s, LAMBDA t, i : \E k \in 1..i : t[k] # "BOM")
        in_string(t, i) ==
            Cardinality({k \in 1..(i - 1) : t[k] = "\""}) % 2 = 1
        compact(s) ==
            pick(s, LAMBDA t, i :
                      in_string(t, i) \/ t[i] \notin {" ", "\n", "\r", "\t"})
        tokens == compact(strip_json_comments(trim_start(text)))
        value == {o \in ManifestObjects : ManifestText(o, CleanJson) = tokens}
    IN  IF value = {} THEN None
        ELSE ModManifest_from(CHOOSE o \in value : TRUE).manifest

\* the installer and the scan read the same manifest file and parse it;
\* one file is followed
ParseManifest ==
    /\ manifest.text = <<>>
    /\ \E obj \in ManifestObjects, deco \in Decorations :
          /\ deco.trailing = "none" => deco.gap = <<>>
          /\ deco.trailing = "list" => obj.Dependencies = "list"
          /\ deco.trailing = "object" =>
                 \E k \in DOMAIN obj : obj[k] # "absent"
          /\ manifest' = [obj |-> obj, deco |-> deco,
                          text |-> ManifestText(obj, deco),
                          result |-> parse_manifest(ManifestText(obj, deco)),
                          scanned |->
                              scan_dir_manifest(ManifestText(obj, deco))]
    /\ UNCHANGED <<vars, install_vars, stream_vars, link, threads, inbox>>

\* ================================================================== links
\* nxm_protocol.rs and the three places of lib.rs that hand a link to
\* add_to_queue.  A link is what Url::parse splits its text into: scheme,
\* host, path segments and the query pairs in their order.

\* the most query pairs of a link, and the latest second of the clock
MaxPairs == 2
MaxSecs == 2

NxmUrlStrings ==
    [scheme : {"nxm", "https"},
     host : {"stardewvalley", "skyrim"},
     path : {<<"mods", "1", "files", "1">>, <<"mods", "x", "files", "1">>,
             <<"mods", "1">>},
     query : UNION {[1..n -> {<<"key", "abc">>, <<"key", "">>,
                              <<"expires", "0">>, <<"expires", "2">>,
                              <<"expires", "x">>, <<"user_id", "1">>}]
                    : n \in 0..MaxPairs}]

\* NxmUrl::parse; of a repeated parameter the last one counts, and an
\* expires or user_id that is no number is None
parse(url) ==
    LET number == ("0" :> 0) @@ ("1" :> 1) @@ ("2" :> 2) @@ ("3" :> 3)
        from_str(s) == IF s \in DOMAIN number THEN Some(number[s]) ELSE None
        last(name) ==
            LET found == SelectSeq(url.query, LAMBDA q : q[1] = name)
            IN  IF found = <<>> THEN None ELSE Some(found[Len(found)][2])
        key == last("key")
        expires == IF last("expires") = None THEN None
                   ELSE from_str(last("expires")[1])
        user_id == IF last("user_id") = None THEN None
                   ELSE from_str(last("user_id")[1])
        error(e) == [kind |-> "Err", error |-> e, nxm_url |-> None]
    IN  CASE url.scheme # "nxm" -> error("InvalidScheme")
          [] url.scheme = "nxm" /\ url.host # "stardewvalley" ->
               error("UnsupportedGame")
          [] url.scheme = "nxm" /\ url.host = "stardewvalley"
             /\ (Len(url.path) # 4 \/ url.path[1] # "mods"
                 \/ url.path[3] # "files") ->
               error("InvalidFormat")
          [] OTHER ->
               IF from_str(url.path[2]) = None THEN error("InvalidModId")
               ELSE IF from_str(url.path[4]) = None
               THEN error("InvalidFileId")
               ELSE IF key = None \/ key = Some("")
               THEN error("MissingKey")
               ELSE [kind |-> "Ok", error |-> "",
                     nxm_url |-> Some([game |-> url.host,
                         mod_id |-> from_str(url.path[2])[1],
                         file_id |-> from_str(url.path[4])[1],
                         key |-> key[1], expires |-> expires,
                         user_id |-> user_id])]

\* a validation that lets every link pass
validate_NeverExpired(nxm_url, now_secs) == "Ok"

\* validate, with is_expired: expired when expires is there and before now
validate(nxm_url, now_secs) ==
    LET is_expired == IF nxm_url.expires # None
                      THEN nxm_url.expires[1] < now_secs
                      ELSE FALSE
    IN  IF is_expired THEN "Expired" ELSE "Ok"

\* a link arrives (deep link, second instance, or the test command): it
\* is parsed, validated against the clock, and handed to add_to_queue,
\* which reads its mod id and file id; an error is emitted as nxm-error.
\* One link is followed.
DeepLink ==
    /\ link.outcome = ""
    /\ \E url \in NxmUrlStrings, now_secs \in 0..MaxSecs,
          loaded \in SettingsStates, installed_mods \in InstalledSets :
          LET parsed == parse(url)
              checked == IF parsed.kind = "Ok"
                         THEN validate(parsed.nxm_url[1], now_secs)
                         ELSE parsed.error
          IN  /\ link' = [url |-> url, at |-> now_secs,
                          nxm_url |-> parsed.nxm_url,
                          outcome |-> IF checked = "Ok" THEN "add_to_queue"
                                      ELSE checked]
              /\ IF checked = "Ok"
                 THEN add_to_queue([mod_id |-> parsed.nxm_url[1].mod_id,
                                    file_id |-> parsed.nxm_url[1].file_id],
                                   loaded, installed_mods)
                 ELSE UNCHANGED vars
    /\ UNCHANGED <<install_vars, stream_vars, manifest, threads, inbox>>

\* ================================================================== locks
\* download_manager.rs: the queue and the active set are two tokio
\* mutexes.  Every operation is the sequence of lock and unlock events of
\* its guards' scopes; tasks of the runtime run the operations side by
\* side.

\* the tasks that run at the same time
MaxThreads == 2

\* an operation that takes the active set first and the queue inside it
LockOps_ActiveThenQueue ==
    [cancel_download |->
         <<<<"lock", "active">>, <<"lock", "queue">>,
           <<"unlock", "queue">>, <<"unlock", "active">>>>,
     complete_download |->
         <<<<"lock", "queue">>, <<"lock", "active">>,
           <<"unlock", "active">>, <<"unlock", "queue">>>>]

\* every guard lives in a block of its own, or to the end of a function
\* that takes no other lock
LockOps ==
    LET scope(m) == <<<<"lock", m>>, <<"unlock", m>>>>
    IN  [add_to_queue |-> scope("queue"),
         process_next_download |->
             scope("queue") \o scope("active") \o scope("queue"),
         get_queue_state |-> scope("queue"),
         cancel_download |-> scope("queue") \o scope("active"),
         clear_completed |-> scope("queue"),
         execute_download |->
             scope("queue") \o scope("active") \o scope("queue"),
         complete_download |-> scope("queue") \o scope("active"),
         fail_download |-> scope("queue") \o scope("active")]

\* task t holds mutex m: its last event on m so far is a lock
Held(t, m) ==
    /\ threads[t].op # ""
    /\ LET on_m == SelectSeq(SubSeq(LockOps[threads[t].op], 1,
                                    threads[t].at),
                             LAMBDA e : e[2] = m)
       IN  on_m # <<>> /\ on_m[Len(on_m)][1] = "lock"

\* a task enters an operation, or makes the next event of its operation:
\* lock() waits while another guard of the mutex lives; after its last
\* event the task is done
LockNext ==
    /\ \E t \in 1..MaxThreads :
          \/ /\ threads[t].op = ""
             /\ \E op \in DOMAIN LockOps :
                   threads' = [threads EXCEPT ![t] = [op |-> op, at |-> 0]]
          \/ /\ threads[t].op # ""
             /\ LET e == LockOps[threads[t].op][threads[t].at + 1]
                IN  /\ e[1] = "lock" =>
                           \A u \in 1..MaxThreads : ~Held(u, e[2])
                    /\ threads' = [threads EXCEPT ![t] =
                           IF threads[t].at + 1 = Len(LockOps[threads[t].op])
                           THEN [op |-> "", at |-> 0]
                           ELSE [op |-> threads[t].op,
                                 at |-> threads[t].at + 1]]
    /\ UNCHANGED <<vars, install_vars, stream_vars, manifest, link, inbox>>

\* =============================================================== listener
\* lib.rs: the handler of "download-completed" spawns a task that loads
\* the settings, looks the download up in get_queue_state and calls
\* install_from_archive on its file.

\* no event has arrived; the settings the handlers will load, the events
\* whose task has not run yet, the install_from_archive calls made so far
\* and those that have not returned yet
NoInbox == [settings |-> [game_path |-> "set",
                          confirm_before_install |-> FALSE],
            pending |-> {}, installs |-> {}, running |-> {}]

\* the task spawned for the event of download_id: without a game path it
\* returns; a download that get_queue_state no longer lists is "not
\* found"; with confirm_before_install the frontend is asked; else
\* install_from_archive is called with the file and the ids of the task
Listener ==
    /\ \E download_id \in inbox.pending :
          LET found == SelectSeq(get_queue_state,
                                 LAMBDA d : d.id = download_id)
              calls == IF /\ inbox.settings.game_path = "set"
                          /\ found # <<>>
                          /\ ~inbox.settings.confirm_before_install
                       THEN {[id |-> download_id,
                              file |-> found[1].file_name,
                              nexus_info |->
                                  Some(<<found[1].nxm_url.mod_id,
                                         found[1].nxm_url.file_id>>)]}
                       ELSE {}
          IN  inbox' = [inbox EXCEPT !.pending = @ \ {download_id},
                                     !.installs = @ \cup calls,
                                     !.running = @ \cup calls]
    /\ UNCHANGED <<vars, install_vars, stream_vars, glue_vars>>

\* install_from_archive returns to the task that called it, and the task
\* ends
InstallReturns ==
    /\ \E done \in inbox.running :
          inbox' = [inbox EXCEPT !.running = @ \ {done}]
    /\ UNCHANGED <<vars, install_vars, stream_vars, glue_vars>>

\* ================================================================== idle
\* nothing around the scheduler and the installer has happened
GlueIdle ==
    /\ manifest = [obj |-> [k \in {"Name", "Author", "Version", "UniqueID",
                                   "Dependencies"} |-> "absent"],
                   deco |-> CleanJson, text |-> <<>>,
                   result |-> [kind |-> "none", error |-> "",
                               missing |-> <<>>, manifest |-> None],
                   scanned |-> None]
    /\ link = [url |-> [scheme |-> "", host |-> "", path |-> <<>>,
                        query |-> <<>>],
               at |-> 0, nxm_url |-> None, outcome |-> ""]
    /\ threads = [t \in 1..MaxThreads |-> [op |-> "", at |-> 0]]

\* every part of the program at rest
Idle == SchedulerIdle /\ InstallerIdle /\ StreamIdle /\ GlueIdle
        /\ inbox = NoInbox

ManifestSpec == Idle /\ [][ParseManifest]_all_vars

LinkSpec == Idle /\ [][DeepLink]_all_vars

LockSpec == Idle /\ [][LockNext]_all_vars

ProgressSpecInit ==
    SchedulerIdle /\ InstallerIdle /\ StreamInit /\ GlueIdle /\ inbox = NoInbox

ProgressSpec == ProgressSpecInit /\ [][ProgressNext]_all_vars

InstallSpecInit ==
    SchedulerIdle /\ InstallInit /\ StreamIdle /\ GlueIdle /\ inbox = NoInbox

InstallSpec == InstallSpecInit /\ [][InstallNext]_all_vars

\* ------------------------------------------------------------------ Next
Submit ==
    /\ \E nxm_url \in NxmUrls, loaded \in SettingsStates,
          installed_mods \in InstalledSets :
           add_to_queue(nxm_url, loaded, installed_mods)
    /\ UNCHANGED other_vars

Cancel ==
    /\ \E download_id \in {UnknownId} \cup 1..(next_id - 1) :
           cancel_download(download_id)
    /\ UNCHANGED other_vars

Clear == clear_completed /\ UNCHANGED other_vars

Admission ==
    /\ \E l \in BagToSet(spawned) :
           \/ TryAcquire(l)
           \/ FindQueued(l)
           \/ DropUnusedPermit(l)
           \/ InsertActive(l)
           \/ MarkQueue(l)
    /\ UNCHANGED other_vars

Executor ==
    /\ \E l \in BagToSet(spawned) :
           \/ StartExecute(l)
           \/ \E result \in {"Ok"} \cup ExecErrors : EndExecute(l, result)
           \/ DropPermit(l)
           \/ complete_download_queue(l)
           \/ fail_download_queue(l)
           \/ FinishActive(l)
    /\ UNCHANGED other_vars

Next == Submit \/ Cancel \/ Clear \/ Admission \/ Executor

\* the scheduler alone: no install is in progress and the disk is not
\* touched
SpecInit ==
    Init /\ InstallerIdle /\ StreamIdle /\ GlueIdle /\ inbox = NoInbox

Spec == SpecInit /\ [][Next]_all_vars

\* The runtime runs every spawned task, and every started transfer ends.
\* Calls from outside (Submit, Cancel, clear_completed) are not forced.
FairSpec == Spec /\ WF_vars(Admission) /\ WF_vars(Executor)

\* the executor with the listener attached: the "download-completed" that
\* complete_download emits at its end spawns the handler's task
ExecutorListened ==
    /\ \E l \in BagToSet(spawned) :
          /\ \/ StartExecute(l)
             \/ \E result \in {"Ok"} \cup ExecErrors : EndExecute(l, result)
             \/ DropPermit(l)
             \/ complete_download_queue(l)
             \/ fail_download_queue(l)
             \/ FinishActive(l)
          /\ inbox' = IF /\ l.pc = "finish_active"
                         /\ FinishEmits(l) = "download-completed"
                      THEN [inbox EXCEPT !.pending = @ \cup {l.task.id}]
                      ELSE inbox
    /\ UNCHANGED <<install_vars, stream_vars, glue_vars>>

ListenNext ==
    \/ Submit \/ Cancel \/ Clear \/ Admission \/ ExecutorListened
    \/ Listener \/ InstallReturns

\* the manager as lib.rs builds it, with any settings on the disk
ListenSpecInit ==
    /\ SchedulerIdle /\ InstallerIdle /\ StreamIdle /\ GlueIdle
    /\ inbox \in {[NoInbox EXCEPT !.settings = s] :
                     s \in [game_path : {"set", ""},
                            confirm_before_install : BOOLEAN]}

\* The runtime runs every spawned task: admissions, executors and the
\* handlers of the listener, whose installs return.  Calls from outside
\* are not forced.
FairListenSpec ==
    /\ ListenSpecInit /\ [][ListenNext]_all_vars
    /\ WF_all_vars(Admission) /\ WF_all_vars(ExecutorListened)
    /\ WF_all_vars(Listener) /\ WF_all_vars(InstallReturns)

\* ---------------------------------------------------- observation helpers
IsQueued(id) ==
    \E i \in 1..Len(queue) : queue[i].id = id /\ queue[i].status = Queued

IsDownloading(id) ==
    \E i \in 1..Len(queue) : queue[i].id = id /\ queue[i].status = Downloading

DownloadingCount ==
    Cardinality({i \in 1..Len(queue) : queue[i].status = Downloading})

\* spawned tasks that own a semaphore permit
HolderPcs == {"find", "drop_unused", "insert_active", "mark_queue",
              "execute", "transfer", "drop_permit"}
HeldPermits ==
    LET holders == {l \in BagToSet(spawned) : l.pc \in HolderPcs}
    IN  BagCardinality([l \in holders |-> CopiesIn(l, spawned)])

\* a transfer of task id is running
TransferRunning(id) ==
    \E l \in BagToSet(spawned) : l.pc = "transfer" /\ l.task.id = id

EntriesFor(id) == Cardinality({i \in 1..Len(queue) : queue[i].id = id})

\* ------------------------------------------------------------------ C1
\* C1: in every reachable state the number of tasks whose status is
\* Downloading is at most max_concurrent.
C1_DownloadingWithinPermits == DownloadingCount <= max_concurrent

\* ------------------------------------------------------------------ C2
\* C2: with every spawned task scheduled and every transfer ending, a task
\* that is Queued leaves the Queued status (is promoted to Downloading)
\* unless it is cancelled, without any further submission.
C2_QueuedEventuallyDownloading ==
    \A id \in TaskIds :
        IsQueued(id) ~> (IsDownloading(id) \/ id \in cancelled_queued
                         \/ id \in executed)

\* ------------------------------------------------------------------ C3
\* C3: execute_download is entered at most once per task id.
C3_ExecutorRunsOncePerTask ==
    [][\A l \in BagToSet(spawned) :
          StartExecute(l) => l.task.id \notin executed]_vars

\* ------------------------------------------------------------------ C4
\* C4: a queue entry that is Completed or Failed keeps its status, and
\* a Downloading entry never becomes Queued.
C4_StatusOnlyForward ==
    [][\A i \in 1..Len(queue) : \A j \in 1..Len(queue') :
          queue[i].id = queue'[j].id =>
              /\ queue[i].status.kind \in {"Completed", "Failed"}
                     => queue'[j].status = queue[i].status
              /\ queue[i].status = Downloading
                     => queue'[j].status # Queued]_vars

\* ------------------------------------------------------------------ C5
\* C5: after cancel_download returned Ok for a task whose status was
\* Queued, the task is absent from the snapshot, is never inserted into
\* the active set and its executor is never started.
C5_QueuedCancelIsComplete ==
    [][\A id \in cancelled_queued' :
          /\ id \notin Ids(queue')
          /\ id \in DOMAIN active' => id \in DOMAIN active
          /\ id \in executed' => id \in executed]_vars

\* ------------------------------------------------------------------ C6
\* C6: cancel_download of a task whose status is Downloading leaves the
\* task in the snapshot, with status Failed and the cancellation reason.
C6_CancelDownloadingMarksFailed ==
    [][\A id \in TaskIds :
          (IsDownloading(id) /\ cancel_download(id)) =>
              \E j \in 1..Len(queue') :
                  /\ queue'[j].id = id
                  /\ queue'[j].status = Failed(CancelledByUser)]_vars

\* ------------------------------------------------------------------ C7
\* C7: cancel_download with an id that matches no task in the queue or
\* the active set returns NotFound, emits no download-cancelled
\* notification and changes neither the queue nor the active set.
C7_UnknownIdIsNotFound ==
    /\ [](\A id \in {UnknownId} \cup TaskIds :
             (id \notin Ids(queue) /\ id \notin DOMAIN active) =>
                 /\ cancel_download_result(id) = "Err: NotFound"
                 /\ cancel_download_emits(id) = {})
    /\ [][\A id \in {UnknownId} \cup TaskIds :
             (id \notin Ids(queue) /\ id \notin DOMAIN active
              /\ cancel_download(id)) => UNCHANGED <<queue, active>>]_vars

\* ------------------------------------------------------------------ C8
\* C8: the available permits plus the permits owned by admission attempts
\* and executors always add up to max_concurrent; a permit comes back
\* exactly when its owner drops it (after the transfer, or when the
\* admission attempt found no Queued task).
C8_PermitsConserved ==
    /\ permits \in 0..max_concurrent
    /\ permits + HeldPermits = max_concurrent

C8_Witness ==
    /\ permits = max_concurrent
    /\ \E l \in BagToSet(spawned) : l.pc = "finish_queue" /\ l.result # "Ok"
    /\ executed # {}

\* ------------------------------------------------------------------ C9
\* C9: ids handed out are pairwise different and the snapshot holds exactly
\* one entry for every live task (Queued, or its transfer still running).
C9_OneEntryPerLiveTask ==
    /\ \A i, j \in 1..Len(get_queue_state) :
           get_queue_state[i].id = get_queue_state[j].id => i = j
    /\ \A id \in 1..(next_id - 1) :
           (IsQueued(id) \/ TransferRunning(id)) => EntriesFor(id) = 1

\* ----------------------------------------------------------------- C10
\* the installed-mod set add_to_queue reads: scan_mods runs only when the
\* settings were loaded and name a game path
ReadSet(settings, installed_mods) ==
    IF settings = "game_path_set" THEN installed_mods ELSE {}

Matches(mods, nxm_url) ==
    \E m \in mods : /\ m.nexus_mod_id = Some(nxm_url.mod_id)
                    /\ m.nexus_file_id = Some(nxm_url.file_id)

Appended(nxm_url) ==
    /\ Len(queue') = Len(queue) + 1
    /\ SubSeq(queue', 1, Len(queue)) = queue
    /\ queue'[Len(queue')].status = Queued
    /\ queue'[Len(queue')].nxm_url = nxm_url
    /\ queue'[Len(queue')].id \notin Ids(queue)
    /\ spawned' = spawned (+) SetToBag({Fresh})

\* C10 as stated: a match in the installed-mod set read at submit time
\* gives the 'already installed' error with no task, notification or
\* admission; every other submission appends one Queued task at the tail
\* and emits download-queued.
C10_RejectsExactlyInstalled ==
    /\ [](\A u \in NxmUrls, s \in SettingsStates, i \in InstalledSets :
             IF Matches(ReadSet(s, i), u)
             THEN /\ add_to_queue_result(u, s, i) = "Err: already installed"
                  /\ add_to_queue_emits(u, s, i) = {}
             ELSE /\ add_to_queue_result(u, s, i) = "Ok"
                  /\ add_to_queue_emits(u, s, i) = {"download-queued"})
    /\ [][\A u \in NxmUrls, s \in SettingsStates, i \in InstalledSets :
             add_to_queue(u, s, i) =>
                 IF Matches(ReadSet(s, i), u) THEN UNCHANGED vars
                 ELSE Appended(u)]_vars

\* C10 amended: as above when Settings::load succeeds; when it fails the
\* call returns the load error and has no effect either.
C10_SubmitGuard ==
    /\ [](\A u \in NxmUrls, s \in SettingsStates, i \in InstalledSets :
             IF s = "load_failed"
             THEN /\ add_to_queue_result(u, s, i)
                         = "Err: Failed to load settings"
                  /\ add_to_queue_emits(u, s, i) = {}
             ELSE IF Matches(ReadSet(s, i), u)
             THEN /\ add_to_queue_result(u, s, i) = "Err: already installed"
                  /\ add_to_queue_emits(u, s, i) = {}
             ELSE /\ add_to_queue_result(u, s, i) = "Ok"
                  /\ add_to_queue_emits(u, s, i) = {"download-queued"})
    /\ [][\A u \in NxmUrls, s \in SettingsStates, i \in InstalledSets :
             add_to_queue(u, s, i) =>
                 IF s = "load_failed" \/ Matches(ReadSet(s, i), u)
                 THEN UNCHANGED vars
                 ELSE Appended(u)]_vars

C10_Witness ==
    /\ Len(queue) = 2
    /\ queue[2].status = Queued
    /\ queue[2].id = next_id - 1
    /\ BagIn(Fresh, spawned)


\* ------------------------------------------------------------------ C11
\* the entry of task id turns Downloading in this step
Promoted(id) ==
    /\ \E i \in 1..Len(queue') :
          queue'[i].id = id /\ queue'[i].status = Downloading
    /\ ~IsDownloading(id)

\* the oldest Queued task of the queue, as an Option
OldestQueued ==
    IF FirstQueued(queue) = 0 THEN None
    ELSE Some(queue[FirstQueued(queue)].id)

\* C11: admission is FIFO: whenever a task turns Downloading it is the
\* oldest task whose status is Queued, and the step is taken by a spawned
\* task that holds a permit it got from try_acquire.
C11_PromotesOldestQueued ==
    [][\A id \in TaskIds :
          Promoted(id) => /\ OldestQueued = Some(id)
                          /\ HeldPermits >= 1]_vars


\* ------------------------------------------------------------------ C12
IsTerminal(t) == t.status.kind \in {"Completed", "Failed"}
IsLive(t) == ~IsTerminal(t)

\* C12: clear_completed removes exactly the entries whose status is
\* Completed or Failed: the queue after it is the queue before it without
\* them, every other entry unchanged and in the same order, and the active
\* set, the permit count and the spawned tasks are as before; and the
\* snapshot get_queue_state returns is always in submission order.
C12_ClearRemovesTerminalOnly ==
    /\ [][clear_completed =>
            /\ queue' = SelectSeq(queue, IsLive)
            /\ active' = active
            /\ permits' = permits
            /\ spawned' = spawned]_vars
    /\ [](\A i, j \in 1..Len(get_queue_state) :
            i < j => get_queue_state[i].id < get_queue_state[j].id)

\* a terminal entry stands in front of a Downloading one: the next
\* clear_completed removes the first and keeps the second
C12_Witness ==
    /\ Len(queue) = 2
    /\ IsTerminal(queue[1])
    /\ queue[2].status = Downloading

\* ------------------------------------------------------------------ C13
\* C13: the successive values of bytes_downloaded stored in the task's
\* queue entry, and those carried by its "download-progress"
\* notifications, never decrease.
C13_BytesNonDecreasing ==
    [][/\ (entry # None /\ entry' # None) => entry'[1] >= entry[1]
       /\ (progress # None /\ progress' # None) =>
              progress'[1].bytes_downloaded >= progress[1].bytes_downloaded
      ]_stream_vars

\* ------------------------------------------------------------------ C14
\* the partial copy a failed copy of this call leaves behind
PartialCopy == Content(call.n, call.source, FALSE, None)

\* C14 as stated: when the copy fails partway, install_from_archive
\* returns an error and the destination path does not exist.
C14_CopyFailureLeavesNoDestination ==
    ReturnedAt("copy") =>
        /\ call.result.kind = "Err"
        /\ call.install_path \notin DOMAIN fs_mods

\* C14 amended: when the copy fails partway, install_from_archive returns
\* an error (IoError) and no InstallResult, and the destination path is
\* either absent or, when the removal of the partial destination failed
\* too, holds the partial copy of this call.
C14_CopyFailureBestEffortRollback ==
    ReturnedAt("copy") =>
        /\ call.result = Err("IoError")
        /\ \/ call.install_path \notin DOMAIN fs_mods
           \/ fs_mods[call.install_path] = PartialCopy

\* the copy failed and the partial destination could not be removed
C14_Witness ==
    /\ ReturnedAt("copy")
    /\ call.install_path \in DOMAIN fs_mods
    /\ fs_mods[call.install_path] = PartialCopy

\* ------------------------------------------------------------------ C15
\* the backup directories written for a target name
BackupsOf(name) == {p \in DOMAIN backups : p[1] = name}

\* a backup directory of its own holds the old contents
BackedUp(name, content) ==
    \E p \in BackupsOf(name) : backups[p] = {content}

\* C15: an install over an existing target path has, by the time it
\* removes the old path, a backup of the old contents in a directory of
\* its own: no backup directory ever receives the contents of two
\* installs, so each backup has a path and timestamp different from the
\* earlier ones, also for two installs within one clock second.
C15_BackupDistinctBeforeRemoval ==
    /\ call.pc = "remove_old" =>
           BackedUp(call.target_name, fs_mods[call.install_path])
    /\ \A p \in DOMAIN backups : Cardinality(backups[p]) = 1


\* ------------------------------------------------------------------ C16
\* the call found an install at its target path and has returned an error
FailedOverOccupied ==
    /\ call.pc = "returned"
    /\ call.result.kind = "Err"
    /\ call.old # None

\* C16: when an install over an occupied target path fails, the old
\* version is at the target path on return, and nothing of the new one.
C16_FailedInstallRestoresOld ==
    FailedOverOccupied =>
        /\ call.install_path \in DOMAIN fs_mods
        /\ fs_mods[call.install_path] = call.old[1]

\* ------------------------------------------------------------------ C17
\* the call created its extraction directory and has returned: with an
\* InstallResult, or with one of the handled errors (the archive could not
\* be extracted, the old install could not be removed, the copy failed,
\* auto-install is off)
ReturnedAfterExtraction ==
    /\ call.pc = "returned"
    /\ \/ call.site \in {"remove_old", "copy", "auto_install_off", "end"}
       \/ call.result = Err("ExtractionFailed")

\* C17: the extraction directory install_from_archive created does not
\* exist when the call returns, with an InstallResult or a handled error.
C17_ScratchRemovedOnReturn ==
    ReturnedAfterExtraction => call.archive.stem \notin fs_scratch

\* ------------------------------------------------------------------ C18
\* an install of the archive with three top-level folders has returned an
\* InstallResult
ThreeFoldersInstalled ==
    ReturnedAt("end") /\ call.archive = ThreeFolderArchive

\* the complete copy of this call's installable unit
FullCopy(nexus) == Content(call.n, call.source, TRUE, nexus)

\* C18 as stated: installing the archive with three top-level folders,
\* none of them a framework name, leaves one install target per folder
\* directly under the mods root.
C18_ThreeFoldersThreeTargets ==
    ThreeFoldersInstalled =>
        \A e \in ThreeFolderArchive.entries :
            <<ModsRoot, e.name>> \in DOMAIN fs_mods

\* C18 amended: installing the archive with three top-level folders
\* leaves one install target: the whole extraction directory, copied to
\* <root>/<name>, where name is the hint if one was given and the
\* archive's file stem otherwise, and root is Mods/_Frameworks if the hint
\* (or with no hint the name) is a framework name and Mods otherwise; none
\* of the three folders becomes a target of its own.
C18_ThreeFoldersOneTarget ==
    ThreeFoldersInstalled =>
        LET name == IF call.mod_name # None THEN call.mod_name[1]
                    ELSE call.archive.stem
            root == IF name \in CoreFrameworks THEN FrameworksRoot
                    ELSE ModsRoot
        IN  /\ call.install_path = <<root, name>>
            /\ call.result.kind = "Ok"
            /\ call.result.mod_name = name
            /\ call.result.install_path = <<root, name>>
            /\ <<root, name>> \in DOMAIN fs_mods
            /\ fs_mods[<<root, name>>].source = <<call.archive.stem>>
            /\ fs_mods[<<root, name>>].by = call.n
            /\ fs_mods[<<root, name>>].complete
            /\ \A e \in ThreeFolderArchive.entries :
                  /\ <<ModsRoot, e.name>> \notin DOMAIN fs_mods
                  /\ <<FrameworksRoot, e.name>> \notin DOMAIN fs_mods

\* the three folders were installed with no hint, as Mods/pack
C18_Witness ==
    /\ ThreeFoldersInstalled
    /\ call.mod_name = None
    /\ <<ModsRoot, "pack">> \in DOMAIN fs_mods
    /\ fs_mods[<<ModsRoot, "pack">>] = FullCopy(call.nexus_info)

\* ------------------------------------------------------------------ C19
\* the root under which a target named name belongs
RootOf(name) ==
    IF name \in CoreFrameworks THEN FrameworksRoot ELSE ModsRoot

\* the call returned an InstallResult for the path p, and its copy is there
InstalledAt(p) ==
    /\ call.install_path = p
    /\ call.result.install_path = p
    /\ p \in DOMAIN fs_mods
    /\ fs_mods[p].by = call.n
    /\ fs_mods[p].complete

\* C19 as stated: the install root is chosen by the target name alone,
\* Mods/_Frameworks exactly when the target name is a framework name,
\* with or without a hint.
C19_RootByTargetName ==
    ReturnedAt("end") =>
        InstalledAt(<<RootOf(call.target_name), call.target_name>>)

\* C19 amended: the install root is chosen by the hint when one was
\* supplied and by the target name otherwise: Mods/_Frameworks exactly
\* when that name is a framework name; the folder under the root is named
\* by the target name in both cases.
C19_RootByHintElseTargetName ==
    ReturnedAt("end") =>
        InstalledAt(<<RootOf(IF call.mod_name # None THEN call.mod_name[1]
                             ELSE call.target_name),
                      call.target_name>>)

\* a folder that is no framework was installed with a framework's name as
\* the hint, and stands under Mods/_Frameworks
C19_Witness ==
    /\ ReturnedAt("end")
    /\ call.mod_name = Some("SMAPI")
    /\ call.target_name = "CoolMod"
    /\ InstalledAt(<<FrameworksRoot, "CoolMod">>)

\* ------------------------------------------------------------------ C20
\* the SingleFolder layout: one top-level entry, a directory
IsSingleFolder(entries) ==
    Cardinality(entries) = 1 /\ \A e \in entries : e.is_dir

\* the name derived from the archive: the inner folder's name for the
\* SingleFolder layout, the archive's file stem for MultiItem
DerivedName(archive) ==
    IF IsSingleFolder(archive.entries)
    THEN (CHOOSE e \in archive.entries : TRUE).name
    ELSE archive.stem

\* C20 as stated: with a hint the target folder name is the hint, for
\* both layouts; the derived name is used only without a hint.
C20_HintNamesTarget ==
    ReturnedAt("end") =>
        /\ call.target_name = IF call.mod_name # None THEN call.mod_name[1]
                              ELSE DerivedName(call.archive)
        /\ call.install_path[2] = call.target_name

\* C20 amended: for the MultiItem layout the target folder name is the
\* hint if one was supplied and the archive's file stem otherwise; for the
\* SingleFolder layout it is the inner folder's name, with or without a
\* hint.
C20_HintNamesMultiItemOnly ==
    ReturnedAt("end") =>
        /\ call.target_name =
              IF call.mod_name # None /\ ~IsSingleFolder(call.archive.entries)
              THEN call.mod_name[1]
              ELSE DerivedName(call.archive)
        /\ call.install_path[2] = call.target_name
        /\ call.install_path \in DOMAIN fs_mods

\* a SingleFolder archive was installed with a hint, under the inner
\* folder's name
C20_Witness ==
    /\ ReturnedAt("end")
    /\ call.archive = SingleFolderArchive
    /\ call.mod_name = Some("SMAPI")
    /\ call.install_path[2] = "CoolMod"
    /\ call.install_path \in DOMAIN fs_mods

\* ------------------------------------------------------------------ C21
\* C21 as stated: the layout is SingleFolder (unit: that directory,
\* default name: its name) exactly when the top level of the extraction
\* directory has one entry and it is a directory, and MultiItem (unit: the
\* whole extraction directory, default name: the archive's file stem)
\* otherwise; so the archive with the single top-level folder CoolMod
\* installs to Mods/CoolMod.
C21_SingleFolderUnderMods ==
    call.source # <<>> =>
        /\ IF IsSingleFolder(call.archive.entries)
           THEN /\ call.source = <<call.archive.stem,
                                   DerivedName(call.archive)>>
                /\ call.target_name = DerivedName(call.archive)
           ELSE /\ call.source = <<call.archive.stem>>
                /\ call.mod_name = None =>
                       call.target_name = call.archive.stem
        /\ (ReturnedAt("end") /\ call.archive = SingleFolderArchive) =>
               InstalledAt(<<ModsRoot, "CoolMod">>)

\* C21 amended: the same classification; the archive with the single
\* top-level folder CoolMod installs to Mods/CoolMod when no hint is
\* supplied or the hint is no framework name, and to
\* Mods/_Frameworks/CoolMod when the hint is a framework name.
C21_SingleFolderUnderHintRoot ==
    call.source # <<>> =>
        /\ IF IsSingleFolder(call.archive.entries)
           THEN /\ call.source = <<call.archive.stem,
                                   DerivedName(call.archive)>>
                /\ call.target_name = DerivedName(call.archive)
           ELSE /\ call.source = <<call.archive.stem>>
                /\ call.mod_name = None =>
                       call.target_name = call.archive.stem
        /\ (ReturnedAt("end") /\ call.archive = SingleFolderArchive) =>
               InstalledAt(<<IF call.mod_name # None
                                 /\ call.mod_name[1] \in CoreFrameworks
                              THEN FrameworksRoot ELSE ModsRoot,
                             "CoolMod">>)

\* the folder CoolMod was the unit of an install without a hint and stands
\* under Mods
C21_Witness ==
    /\ ReturnedAt("end")
    /\ call.archive = SingleFolderArchive
    /\ call.mod_name = None
    /\ call.source = <<"pack", "CoolMod">>
    /\ InstalledAt(<<ModsRoot, "CoolMod">>)

\* ------------------------------------------------------------------ C22
\* C22: after a successful copy the read of the installed manifest never
\* aborts the install: the step after the copy returns an InstallResult;
\* with the manifest absent or unparsable its version is "Unknown" and its
\* unique id the target name, and with a manifest that parses it carries
\* the manifest's version and unique id.
C22_ManifestFallbackNeverAborts ==
    [][(call.pc = "finalize" /\ call' # call) =>
          /\ call'.pc = "returned"
          /\ call'.result.kind = "Ok"
          /\ call'.manifest \in ManifestReads
          /\ IF call'.manifest = "parsed"
             THEN /\ call'.result.version = InstalledManifest.version
                  /\ call'.result.unique_id = InstalledManifest.unique_id
             ELSE /\ call'.result.version = "Unknown"
                  /\ call'.result.unique_id = call.target_name]_all_vars

\* an install whose manifest did not parse returned with the fallback
C22_Witness ==
    /\ ReturnedAt("end")
    /\ call.manifest = "unparsable"
    /\ call.result.kind = "Ok"
    /\ call.result.version = "Unknown"
    /\ call.result.unique_id = call.target_name

\* ------------------------------------------------------------------ C23
\* C23: a returned call has an InstallResult exactly when its copy phase
\* succeeded, and then it has emitted "mod-installed" once; a call that
\* returned an error has no InstallResult and has emitted nothing, and no
\* call emits before it returns.
C23_ResultAndEventIffCopied ==
    LET copied == /\ call.install_path \in DOMAIN fs_mods
                  /\ fs_mods[call.install_path].by = call.n
                  /\ fs_mods[call.install_path].complete
    IN  /\ call.pc = "returned" =>
              /\ (call.result.kind = "Ok") <=> copied
              /\ call.result.kind \in {"Ok", "Err"}
              /\ call.emitted = IF call.result.kind = "Ok" THEN 1 ELSE 0
              /\ (call.result.kind = "Err") =>
                     call.result.install_path = <<>>
        /\ call.pc # "returned" =>
              call.emitted = 0 /\ call.result = NoResult

\* a call returned an InstallResult after one notification, its copy in
\* place
C23_Witness ==
    /\ ReturnedAt("end")
    /\ call.result.kind = "Ok"
    /\ call.emitted = 1
    /\ InstalledAt(call.install_path)

\* ------------------------------------------------------------------ C28
\* C28: whenever install_from_archive returns an error because the copy of
\* the installable unit or the removal of the existing install path
\* failed, the error is InstallError::InstallationFailed.
C28_CopyOrRemoveFailureIsInstallationFailed ==
    (ReturnedAt("copy") \/ ReturnedAt("remove_old")) =>
        call.result = Err("InstallationFailed")

\* ------------------------------------------------------------------ C30
\* C30: cancel_download never releases a permit and never admits another
\* task: the available permits and the running admission and executor
\* tasks are the same before and after every cancel_download, so a task
\* cancelled while Downloading keeps its slot: its transfer is still
\* running and still holds its permit.
C30_CancelKeepsPermitsAndExecutors ==
    [][\A id \in {UnknownId} \cup TaskIds :
          cancel_download(id) =>
              /\ permits' = permits
              /\ spawned' = spawned
              /\ TransferRunning(id) => TransferRunning(id)'
              /\ HeldPermits' = HeldPermits]_vars

\* a task was cancelled while Downloading: its entry is gone from the
\* queue, its transfer runs on and its permit is not back
C30_Witness ==
    \E id \in TaskIds :
        /\ TransferRunning(id)
        /\ id \notin Ids(queue)
        /\ id \notin cancelled_queued
        /\ id \in DOMAIN active
        /\ permits < max_concurrent

\* ------------------------------------------------------------------ C24
\* C24: for every valid manifest object, the text with a leading
\* byte-order mark, comments outside strings and a trailing comma before
\* a closing brace or bracket, with any whitespace between the comma and
\* the closer, parses to the same ModManifest as the clean JSON.
C24_DecoratedParsesAsClean ==
    (/\ manifest.text # <<>>
     /\ parse_manifest(ManifestText(manifest.obj, CleanJson)).kind = "Ok") =>
        manifest.result = parse_manifest(ManifestText(manifest.obj, CleanJson))

\* ------------------------------------------------------------------ C25
\* C25 as stated: parse_manifest succeeds on a JSON object whenever Name,
\* Version and UniqueID are strings in it, Author being "Unknown" if it is
\* absent; and when one of the three keys is absent it fails with a
\* message that lists exactly the absent ones.
C25_RequiredStringsSuffice ==
    (manifest.text # <<>> /\ manifest.result.error # "Invalid JSON syntax") =>
        LET obj == manifest.obj
            absent == SelectSeq(<<"Name", "Version", "UniqueID">>,
                                LAMBDA k : obj[k] = "absent")
        IN  /\ (\A k \in {"Name", "Version", "UniqueID"} : obj[k] = "string")
                  => /\ manifest.result.kind = "Ok"
                     /\ obj.Author = "absent" =>
                            manifest.result.manifest[1].author = "Unknown"
            /\ absent # <<>> =>
                  /\ manifest.result.kind = "Err"
                  /\ manifest.result.error = "Missing required fields"
                  /\ manifest.result.missing = absent

\* C25 amended: parse_manifest succeeds on a JSON object whenever Name,
\* Version and UniqueID are strings in it and every optional key that is
\* present has the type the struct declares (Author a string,
\* Dependencies a list of dependencies), Author being "Unknown" if it is
\* absent; and when one of the three keys is absent it fails with a
\* message that lists exactly the absent ones.
C25_RequiredStringsAndTypedOptionals ==
    (manifest.text # <<>> /\ manifest.result.error # "Invalid JSON syntax") =>
        LET obj == manifest.obj
            absent == SelectSeq(<<"Name", "Version", "UniqueID">>,
                                LAMBDA k : obj[k] = "absent")
        IN  /\ (/\ \A k \in {"Name", "Version", "UniqueID"} :
                       obj[k] = "string"
                /\ obj.Author \in {"absent", "string"}
                /\ obj.Dependencies \in {"absent", "list"})
                  => /\ manifest.result.kind = "Ok"
                     /\ obj.Author = "absent" =>
                            manifest.result.manifest[1].author = "Unknown"
            /\ absent # <<>> =>
                  /\ manifest.result.kind = "Err"
                  /\ manifest.result.error = "Missing required fields"
                  /\ manifest.result.missing = absent

\* a manifest with Version absent and Name a number was parsed: the
\* message lists Version alone
C25_Witness ==
    /\ manifest.text # <<>>
    /\ manifest.obj.Name = "number"
    /\ manifest.obj.Version = "absent"
    /\ manifest.obj.UniqueID = "string"
    /\ manifest.result.kind = "Err"
    /\ manifest.result.missing = <<"Version">>

\* ------------------------------------------------------------------ C29
\* C29: a link reaches add_to_queue only parsed, with a key that is not
\* empty, and after validate passed it; validate fails exactly when
\* expires is there and earlier than the clock, so a link without expires
\* never expires; and a link whose key is missing or empty is rejected by
\* parse with MissingKey.
C29_OnlyValidatedLinksEnqueued ==
    link.outcome # "" =>
        LET keys == SelectSeq(link.url.query, LAMBDA q : q[1] = "key")
            keyless == keys = <<>> \/ keys[Len(keys)][2] = ""
            expired == /\ link.nxm_url # None
                       /\ link.nxm_url[1].expires # None
                       /\ link.nxm_url[1].expires[1] < link.at
        IN  /\ link.outcome = "add_to_queue" =>
                  /\ link.nxm_url # None
                  /\ link.nxm_url[1].key # ""
                  /\ ~keyless
                  /\ ~expired
            /\ (link.outcome = "Expired") <=> expired
            /\ (link.outcome = "MissingKey") <=>
                  /\ keyless
                  /\ link.url.scheme = "nxm"
                  /\ link.url.host = "stardewvalley"
                  /\ link.url.path = <<"mods", "1", "files", "1">>
            /\ link.outcome # "add_to_queue" => queue = <<>>

\* a link whose expires equals the clock passed validate and was queued
C29_Witness ==
    /\ link.outcome = "add_to_queue"
    /\ link.nxm_url[1].expires = Some(2)
    /\ link.at = 2
    /\ Len(queue) = 1

\* ------------------------------------------------------------------ C27
\* C27: no operation of the download manager holds the active-set lock
\* while it holds or waits for the queue lock, so the operations cannot
\* deadlock on the two locks: whenever an operation is in progress, some
\* operation can make its next step.
C27_NoActiveThenQueue ==
    LET next(t) == LockOps[threads[t].op][threads[t].at + 1]
        running == {t \in 1..MaxThreads : threads[t].op # ""}
    IN  /\ \A t \in running :
              Held(t, "active") =>
                  /\ ~Held(t, "queue")
                  /\ next(t) # <<"lock", "queue">>
        /\ running # {} =>
              \E t \in running :
                  next(t)[1] = "lock" =>
                      \A u \in 1..MaxThreads : ~Held(u, next(t)[2])

\* one task holds the queue lock, another the active-set lock, at the
\* same time
C27_Witness ==
    \E t, u \in 1..MaxThreads :
        /\ Held(t, "queue")
        /\ Held(u, "active")
        /\ threads[t].op = "cancel_download"
        /\ threads[u].op = "complete_download"

\* ------------------------------------------------------------------ C26
\* C26: for every task that reaches Completed, when a game path is
\* configured and confirm-before-install is off, install_from_archive is
\* eventually called with the task's downloaded file and its mod id and
\* file id, whatever cancel_download and clear_completed do meanwhile.
C26_CompletedEventuallyInstalled ==
    \A id \in TaskIds :
        (/\ inbox.settings.game_path = "set"
         /\ ~inbox.settings.confirm_before_install
         /\ \E i \in 1..Len(queue) :
               queue[i].id = id /\ queue[i].status = Completed)
        ~> (\E call_made \in inbox.installs :
               /\ call_made.id = id
               /\ call_made.file = FileName(CHOOSE u \in NxmUrls : TRUE)
               /\ call_made.nexus_info = Some(<<1, 1>>))

\* ------------------------------------------------------------------ C31
\* C31: a task is in the active set only between its admission and its
\* terminal transition: the step that ends complete_download or
\* fail_download leaves the task absent from the active set, and a task
\* whose queue entry is Completed or Failed and which is absent from the
\* active set is never inserted into it again.
C31_ActiveOnlyUntilTerminal ==
    [][\A id \in TaskIds :
          /\ (\E l \in BagToSet(spawned) :
                 l.task.id = id /\ FinishActive(l))
                 => id \notin DOMAIN active'
          /\ (/\ \E i \in 1..Len(queue) :
                    queue[i].id = id /\ IsTerminal(queue[i])
              /\ id \notin DOMAIN active)
                 => id \notin DOMAIN active']_vars

\* ------------------------------------------------------------------ C32
\* C32: when execute_download returns an error, fail_download marks the
\* task's entry Failed with that reason, and from then on the entry keeps
\* that status and the task is never admitted again: no admission attempt
\* marks it Downloading and no executor is started for it.
C32_FailedIsFinal ==
    [][/\ \A l \in BagToSet(spawned) :
             (fail_download_queue(l) /\ l.task.id \in Ids(queue)) =>
                 queue'[Position(queue', l.task.id)].status
                     = Failed(l.result)
       /\ \A i \in 1..Len(queue) :
             queue[i].status.kind = "Failed" =>
                 /\ \A j \in 1..Len(queue') :
                       queue'[j].id = queue[i].id =>
                           queue'[j].status = queue[i].status
                 /\ \A l \in BagToSet(spawned) :
                       l.task.id = queue[i].id =>
                           ~MarkQueue(l) /\ ~StartExecute(l)]_vars

\* ------------------------------------------------------------------ C33
\* C33: any two consecutive "download-progress" notifications of the task
\* are at least 100 ms apart, and bytes_downloaded of the task's queue
\* entry is written only in a step that emits a notification.  An executor
\* has emitted once its last_progress_bytes is not 0, and then its
\* last_progress_time is the time of its last notification.
C33_ProgressAtMostEvery100ms ==
    [][LET reported == {k \in 1..Len(streams) :
                            streams[k].last_progress_bytes > 0}
           emits == \E k \in 1..Len(streams) :
                        streams'[k].last_progress_bytes
                            # streams[k].last_progress_bytes
       IN  /\ emits => \A k \in reported :
                  now - streams[k].last_progress_time >= ProgressIntervalMs
           /\ (entry' # entry /\ entry' # None) => emits]_stream_vars

\* ------------------------------------------------------------------ C34
\* C34: in every "download-progress" payload eta_seconds is there exactly
\* when speed_bps is not 0 and the total size is known, and then it is
\* (bytes_total - bytes_downloaded) divided by speed_bps, rounded down and
\* not negative, the subtraction never passing below 0, also for a body
\* longer than the announced total.
C34_EtaIsRemainingOverSpeed ==
    progress # None =>
        LET p == progress[1]
        IN  /\ (p.eta_seconds # None) <=>
                   (p.speed_bps > 0 /\ p.bytes_total # None)
            /\ p.eta_seconds # None =>
                   /\ p.bytes_total[1] >= p.bytes_downloaded
                   /\ p.eta_seconds[1] >= 0
                   /\ p.eta_seconds[1] =
                          (p.bytes_total[1] - p.bytes_downloaded)
                              \div p.speed_bps

\* ------------------------------------------------------------------ C35
\* C35: the archive file is deleted only by a call whose settings have
\* delete_after_install, in the step after its copy succeeded, and that
\* step returns an InstallResult; a step that returns an error leaves the
\* archive where it is; and the step after the copy returns an
\* InstallResult whether or not the extraction directory and the archive
\* could be removed.
C35_ArchiveDeletedOnlyAfterCopy ==
    [][LET copied == /\ call.install_path \in DOMAIN fs_mods
                     /\ fs_mods[call.install_path].by = call.n
                     /\ fs_mods[call.install_path].complete
       IN  /\ fs_archives' # fs_archives =>
                  /\ install_settings.delete_after_install
                  /\ call.pc = "finalize"
                  /\ copied
                  /\ fs_archives' = fs_archives \ {call.archive.stem}
                  /\ call'.result.kind = "Ok"
           /\ (/\ call.pc # "returned"
               /\ call'.pc = "returned"
               /\ call'.result.kind = "Err") => fs_archives' = fs_archives
           /\ (call.pc = "finalize" /\ call' # call) =>
                  call'.result.kind = "Ok"]_all_vars

\* an install returned its InstallResult although neither the extraction
\* directory nor the archive it was to delete could be removed
C35_Witness ==
    /\ ReturnedAt("end")
    /\ call.result.kind = "Ok"
    /\ install_settings.delete_after_install
    /\ call.archive.stem \in fs_archives
    /\ call.archive.stem \in fs_scratch

\* ------------------------------------------------------------------ C40
\* C40: with auto_install off, no step of an install_from_archive call
\* changes the mods directory or writes a backup, and the call that
\* reaches the auto_install test returns InstallationFailed.
C40_AutoInstallOffChangesNothing ==
    [][(~install_settings.auto_install
        /\ call.pc \notin {"idle", "returned"}) =>
           /\ fs_mods' = fs_mods
           /\ backups' = backups
           /\ call'.site = "auto_install_off" =>
                  call'.result = Err("InstallationFailed")]_all_vars

\* ------------------------------------------------------------------ C36
\* C36: after install_from_archive returned an InstallResult for a call
\* that was given the ids (mod id, file id), wrote them to .nexus_meta,
\* and whose archive holds a valid manifest (at the top of the installed
\* directory, or in each of the three folders of the three-folder
\* archive), scan_mods reports a mod with these ids, so that add_to_queue
\* of a link with the same ids is rejected as already installed.
C36_ProvenanceRoundTrips ==
    (/\ ReturnedAt("end")
     /\ call.nexus_info # None
     /\ fs_mods[call.install_path].nexus = call.nexus_info
     /\ (call.manifest = "parsed" \/ call.archive = ThreeFolderArchive)) =>
        /\ \E m \in scan_mods :
              /\ m.nexus_mod_id = Some(call.nexus_info[1][1])
              /\ m.nexus_file_id = Some(call.nexus_info[1][2])
        /\ add_to_queue_result([mod_id |-> call.nexus_info[1][1],
                                file_id |-> call.nexus_info[1][2]],
                               "game_path_set", scan_mods)
               = "Err: already installed"

\* ------------------------------------------------------------------ C37
\* C37: scan_dir and parse_manifest accept the same manifest texts, a text
\* with a trailing comma before a closing brace among them, and for a text
\* they accept they give the same ModManifest.
C37_ScanParsesAsInstaller ==
    manifest.text # <<>> =>
        /\ (manifest.result.kind = "Ok") <=> (manifest.scanned # None)
        /\ manifest.scanned # None =>
               manifest.scanned = manifest.result.manifest

\* ------------------------------------------------------------------ C38
\* C38: at no time are two install_from_archive calls of the
\* "download-completed" handler in progress.
C38_OneInstallAtATime == Cardinality(inbox.running) <= 1

\* ------------------------------------------------------------------ C39
\* C39: while an executor has the download file of its task open for
\* writing (the file is created and written inside the transfer), no
\* executor of another task is writing a file of the same name and no
\* install the handler started is reading it.
C39_FileNotSharedWhileWritten ==
    \A l \in At("transfer") :
        /\ \A other \in At("transfer") :
              other.task.file_name = l.task.file_name =>
                  other.task.id = l.task.id
        /\ \A reading \in inbox.running :
              reading.file # l.task.file_name
====
